---- MODULE Spec2Model ----
(***************************************************************************)
(* A model of the keyword planner: the Listing Fetcher (scrapper.py), the  *)
(* Keyword Synthesizer (aikeyword.py), the Catalog Store client            *)
(* (typesense_client.py) and the button handler that sequences them        *)
(* (app.py).                                                               *)
(*                                                                         *)
(* Three specifications share the module:                                  *)
(*   Spec       the button handler, run after run, against the store;      *)
(*   SpecSynth  generateKeywords applied to every reply of a bounded set;  *)
(*   SpecBatch  the concurrent competitor batch of the Fetcher.            *)
(***************************************************************************)
EXTENDS Integers, Sequences, FiniteSets, TLC

VARIABLES
    \* ---- the store (the two Typesense collections) and the uuid source
    appDetails,         \* the documents of collection "appDetails"
    aiKeywords,         \* the documents of collection "aiKeywords"
    nextUid,            \* uuid.uuid4(): the n-th call gives uid n
    \* ---- the button handler of app.py
    run,                \* how many times the button was pressed
    pc,                 \* where the handler stands
    app_url,            \* st.text_input
    country_code,       \* st.selectbox
    existing_details,   \* line 30
    existing_keywords,  \* line 30
    app_details,        \* line 43
    ai_response,        \* line 48
    ingest_ret,         \* line 66: [success, value]
    msgs,               \* what the handler showed, in order
    \* ---- history of the current run, for the properties
    calls,              \* the component calls made, in order: [op, ok]
    store0,             \* the two collections when the button was pressed
    ingested,           \* the (app_url, country) of earlier runs whose two upserts succeeded
    \* ---- SpecSynth: one call of AIKeywordGenerator.generateKeywords
    response,           \* what self.model.invoke(messages) did
    synth_pc,           \* "ready" | "done"
    extracted,          \* the json_str cut out of the reply (or NoExtract)
    synth_result,       \* what generateKeywords returned (or Raised)
    \* ---- SpecBatch: one call of _scrape_competitors_concurrently
    batch_pc,           \* "off" | "gathering" | "returned" | "raised"
    competitors,        \* the competitors argument
    tasks,              \* per task of line 99: "running" | "ok" | "failed" | "cancelled"
    results,            \* per task: what _fetch_competitor_keywords returned
    finish_order,       \* the tasks in the order they finished
    batch_result,       \* what the call returned
    \* ---- SpecUrl: AppStoreScraper(app_url, country_code), built once and again
    norm,               \* [pc, app_url, country_code, once, twice, looked, searched]
    \* ---- SpecFilter: one call of _get_keywords_from_soup
    filt,               \* [pc, meta, app_name, app_subtitle, keywords]
    \* ---- SpecSchema: calls of appDetailsSchema and aiKeywordsSchema
    collections,        \* per collection name: "absent" or the schema it has
    schema_log          \* the calls made, in order, with what each did

storeVars == <<appDetails, aiKeywords, nextUid>>

runVars == <<run, pc, app_url, country_code, existing_details, existing_keywords,
             app_details, ai_response, ingest_ret, msgs, calls, store0, ingested>>

synthVars == <<response, synth_pc, extracted, synth_result>>

batchVars == <<batch_pc, competitors, tasks, results, finish_order, batch_result>>

pureVars == <<norm, filt>>

schemaVars == <<collections, schema_log>>

vars == <<storeVars, runVars, synthVars, batchVars, pureVars, schemaVars>>

(***************************************************************************)
(* Bounds of the model.                                                    *)
(***************************************************************************)
MaxReplyLen == 3        \* every reply of at most this many tokens is tried
MaxRuns == 2            \* button presses
MaxComp == 4            \* competitor links on a listing page
MaxPathLen == 4         \* segments after the domain of a URL
MaxPieces == 3          \* comma-separated pieces of a keywords content
MaxSchemaCalls == 3     \* calls of the two schema methods
MaxReruns == 3          \* button presses for URLs of one app

(***************************************************************************)
(* Python values.  A value is a record with the same three fields whatever *)
(* its kind, so that any two values can be compared.                       *)
(*   none : None (also what json.loads gives for null)                     *)
(*   str  : s is the string          num : s is the literal                *)
(*   list : items is the sequence of element values                        *)
(*   obj  : items is the sequence of [k, v] pairs, in insertion order      *)
(*   raise: not a value; an exception left the call                        *)
(***************************************************************************)
NoneVal == [kind |-> "none", s |-> "", items |-> <<>>]
Raised == [kind |-> "raise", s |-> "", items |-> <<>>]
JStr(s) == [kind |-> "str", s |-> s, items |-> <<>>]
JNum(s) == [kind |-> "num", s |-> s, items |-> <<>>]
JList(q) == [kind |-> "list", s |-> "", items |-> q]
JObj(q) == [kind |-> "obj", s |-> "", items |-> q]
Pair(k, v) == [k |-> k, v |-> v]

\* key in dict
HasKey(d, key) == \E i \in 1..Len(d.items) : d.items[i].k = key

\* dict[key], for a key the dict has
GetKey(d, key) == d.items[CHOOSE i \in 1..Len(d.items) : d.items[i].k = key].v

\* dict[key] = v : an existing key keeps its place and takes the new value
SetKey(d, key, v) ==
    IF HasKey(d, key)
    THEN JObj([i \in 1..Len(d.items) |->
                 IF d.items[i].k = key THEN Pair(key, v) ELSE d.items[i]])
    ELSE JObj(Append(d.items, Pair(key, v)))

(***************************************************************************)
(* The reply text, as a sequence of tokens.  A token stands for a piece of *)
(* text that holds no brace other than the two brace tokens themselves:    *)
(*   "{" "}" ","      the characters                                       *)
(*   "aik:" ...       a quoted key with its colon                          *)
(*   "[a]" ...        a whole JSON array, string, number or null           *)
(*   "p" "fence"      prose, a markdown fence                              *)
(***************************************************************************)
KeyTok == {"aik:", "appK:", "comp:", "c1:"}

KeyOf(t) ==
    CASE t = "aik:" -> "aikeywords"
      [] t = "appK:" -> "appKeywords"
      [] t = "comp:" -> "compKeywords"
      [] t = "c1:" -> "Comp1"

AtomTok == {"[a,b]", "[x]", "[appK]", "'appK'", "'a'", "1", "null"}

AtomOf(t) ==
    CASE t = "[a,b]" -> JList(<<JStr("a"), JStr("b")>>)
      [] t = "[x]" -> JList(<<JStr("x")>>)
      [] t = "[appK]" -> JList(<<JStr("appKeywords")>>)
      [] t = "'appK'" -> JStr("appKeywords")
      [] t = "'a'" -> JStr("a")
      [] t = "1" -> JNum("1")
      [] t = "null" -> NoneVal

ProseTok == {"p", "fence"}

\* a in b, for strings of the model: the substring test of Python in
StrContains(b, a) == a = b

(***************************************************************************)
(* json.loads on a token sequence: a recursive-descent parse of            *)
(*   value   ::= atom | object                                             *)
(*   object  ::= { } | { key value (, key value)* }                        *)
(* ParseValue gives [ok, val, next]: next is the index after the value.    *)
(* A repeated key keeps its first place and takes its last value, as a     *)
(* Python dict does.                                                       *)
(***************************************************************************)
ParseFail == [ok |-> FALSE, val |-> NoneVal, next |-> 0]

RECURSIVE ParseValue(_, _)
RECURSIVE ParseMembers(_, _, _)

ParseMembers(toks, i, acc) ==
    IF i + 1 > Len(toks) \/ toks[i] \notin KeyTok THEN ParseFail
    ELSE LET r == ParseValue(toks, i + 1) IN
         IF ~r.ok \/ r.next > Len(toks) THEN ParseFail
         ELSE LET acc2 == SetKey(acc, KeyOf(toks[i]), r.val) IN
              IF toks[r.next] = "}" THEN [ok |-> TRUE, val |-> acc2, next |-> r.next + 1]
              ELSE IF toks[r.next] = "," THEN ParseMembers(toks, r.next + 1, acc2)
              ELSE ParseFail

ParseValue(toks, i) ==
    IF i > Len(toks) THEN ParseFail
    ELSE IF toks[i] \in AtomTok THEN [ok |-> TRUE, val |-> AtomOf(toks[i]), next |-> i + 1]
    ELSE IF toks[i] = "{" THEN
         IF i + 1 <= Len(toks) /\ toks[i + 1] = "}"
         THEN [ok |-> TRUE, val |-> JObj(<<>>), next |-> i + 2]
         ELSE ParseMembers(toks, i + 1, JObj(<<>>))
    ELSE ParseFail

\* json.loads(json_str): [ok, val]; ~ok is json.JSONDecodeError
Loads(toks) ==
    LET r == ParseValue(toks, 1) IN
    IF r.ok /\ r.next = Len(toks) + 1
    THEN [ok |-> TRUE, val |-> r.val]
    ELSE [ok |-> FALSE, val |-> NoneVal]

(***************************************************************************)
(* str.find / str.rfind, with Python's 0-based indices and -1 for absent.  *)
(***************************************************************************)
RECURSIVE FindFrom(_, _, _)
FindFrom(text, ch, i) ==
    IF i > Len(text) THEN -1
    ELSE IF text[i] = ch THEN i - 1
    ELSE FindFrom(text, ch, i + 1)

Find(text, ch) == FindFrom(text, ch, 1)

RECURSIVE RFindFrom(_, _, _)
RFindFrom(text, ch, i) ==
    IF i < 1 THEN -1
    ELSE IF text[i] = ch THEN i - 1
    ELSE RFindFrom(text, ch, i - 1)

RFind(text, ch) == RFindFrom(text, ch, Len(text))

\* text[a:b], for 0 <= a <= b
Slice(text, a, b) == SubSeq(text, a + 1, IF b > Len(text) THEN Len(text) ELSE b)

(***************************************************************************)
(* generateKeywords, lines 84-109.                                         *)
(***************************************************************************)
NoExtract == [found |-> FALSE, json_str |-> <<>>]

\* lines 89-98 with the slice [start_index:end_index]
ExtractJsonExclusive(response_text) ==
    LET start_index == Find(response_text, "{")
        end_index == RFind(response_text, "}")
    IN  IF start_index # -1 /\ end_index # -1 /\ end_index > start_index
        THEN [found |-> TRUE, json_str |-> Slice(response_text, start_index, end_index)]
        ELSE NoExtract

\* lines 89-98: the text between the first { and the last }, inclusive
ExtractJson(response_text) ==
    LET start_index == Find(response_text, "{")
        end_index == RFind(response_text, "}")
    IN  IF start_index # -1 /\ end_index # -1 /\ end_index > start_index
        THEN [found |-> TRUE, json_str |-> Slice(response_text, start_index, end_index + 1)]
        ELSE NoExtract

\* x in container: "yes", "no", or "TypeError" when container is not iterable
PyIn(x, container) ==
    CASE container.kind = "obj" -> IF HasKey(container, x) THEN "yes" ELSE "no"
      [] container.kind = "list" ->
            IF \E i \in 1..Len(container.items) : container.items[i] = JStr(x)
            THEN "yes" ELSE "no"
      [] container.kind = "str" -> IF StrContains(container.s, x) THEN "yes" ELSE "no"
      [] OTHER -> "TypeError"

\* lines 101-105, inside the try of line 85
ValidateStructure(data) ==
    IF PyIn("aikeywords", data) = "yes"
    THEN IF PyIn("appKeywords", GetKey(data, "aikeywords")) = "yes"
         THEN data
         ELSE NoneVal      \* missing key (line 105) or TypeError (line 107)
    ELSE NoneVal

\* resp: [raises, is_str, content] is what self.model.invoke did
GenerateKeywords(resp) ==
    IF resp.raises THEN Raised                   \* line 84 is outside the try
    ELSE IF ~resp.is_str THEN NoneVal            \* line 106
    ELSE LET e == ExtractJson(resp.content) IN
         IF ~e.found THEN NoneVal                \* line 98
         ELSE LET parsed == Loads(e.json_str) IN
              IF ~parsed.ok THEN NoneVal         \* line 107
              ELSE ValidateStructure(parsed.val)

(***************************************************************************)
(* The replies tried.                                                      *)
(***************************************************************************)
ReplyTok == {"{", "}", ",", "p", "aik:", "appK:", "[a,b]", "[appK]", "'appK'", "1"}

RECURSIVE SeqsUpTo(_, _)
SeqsUpTo(S, n) ==
    IF n = 0 THEN {<<>>}
    ELSE LET shorter == SeqsUpTo(S, n - 1) IN
         shorter \cup {Append(q, t) : q \in {r \in shorter : Len(r) = n - 1}, t \in S}

ShortReplies == SeqsUpTo(ReplyTok, MaxReplyLen)

\* whole JSON texts, well formed and not
Bodies ==
    { <<"{", "aik:", "{", "appK:", "[a,b]", ",", "comp:", "{", "c1:", "[x]", "}", "}", "}">>,
      <<"{", "aik:", "{", "appK:", "[a,b]", "}", "}">>,
      <<"{", "aik:", "{", "appK:", "'a'", "}", "}">>,
      <<"{", "aik:", "{", "comp:", "{", "}", "}", "}">>,
      <<"{", "aik:", "{", "appK:", "[a,b]", ",", "}", "}">>,
      <<"{", "aik:", "[appK]", "}">>,
      <<"{", "aik:", "'appK'", "}">>,
      <<"{", "aik:", "null", "}">>,
      <<"{", "appK:", "[a,b]", "}">>,
      <<"{", "aik:", "{", "appK:", "[x]", "}", ",", "aik:", "{", "}", "}">>,
      <<"p">>,
      <<"[a,b]">> }

Wrappers == {<<>>, <<"p">>, <<"p", "fence">>, <<"}">>, <<"{">>, <<"fence", "p", "{", "}">>}

WrappedReplies == {pre \o body \o post : pre \in Wrappers, body \in Bodies, post \in Wrappers}

Replies == ShortReplies \cup WrappedReplies

Responses ==
    {[raises |-> FALSE, is_str |-> TRUE, content |-> r] : r \in Replies}
    \cup {[raises |-> TRUE, is_str |-> TRUE, content |-> <<>>],
          [raises |-> FALSE, is_str |-> FALSE, content |-> <<>>]}

(***************************************************************************)
(* URLs.  A URL is the sequence of its segments, the pieces between "/":   *)
(* "apps.apple.com/us/app/id1" is <<"apps.apple.com", "us", "app", "id1">>.*)
(* A "/" stands between two consecutive segments, so the pattern           *)
(* \/[a-z]{2}\/ matches exactly a segment of two lower-case letters that   *)
(* is neither the first nor the last.                                      *)
(***************************************************************************)
TwoLetter == {"us", "in", "ar", "au", "gb", "go"}   \* segments matching [a-z]{2}
Domain == "apps.apple.com"

\* the digits of a segment of the form id<digits>, "" for any other segment
IdDigits(seg) ==
    CASE seg = "id1" -> "1"
      [] seg = "id2" -> "2"
      [] OTHER -> ""

\* str.lower() on the strings of the model
Lower(s) ==
    CASE s = "US" -> "us"
      [] s = "IN" -> "in"
      [] s = "APP" -> "app"
      [] s = "MyApp" -> "myapp"
      [] s = "Photo" -> "photo"
      [] s = "Fast Edit" -> "fast edit"
      [] s = "Not Found" -> "not found"
      [] OTHER -> s

\* str.strip() on the strings of the model
Strip(s) ==
    CASE s = " Photo " -> "Photo"
      [] s = " Fast Edit" -> "Fast Edit"
      [] s = " edit" -> "edit"
      [] OTHER -> s

\* re.search(r"\/[a-z]{2}\/", url)
HasLocale(url) == \E i \in 2..(Len(url) - 1) : url[i] \in TwoLetter

\* re.sub(r"\/[a-z]{2}\/", "/cc/", url): every match from left to right; a
\* match takes the slash after it, so the next segment cannot match
RECURSIVE SubLocaleFrom(_, _, _)
SubLocaleFrom(url, cc, i) ==
    IF i > Len(url) - 1 THEN url
    ELSE IF url[i] \in TwoLetter
         THEN SubLocaleFrom([url EXCEPT ![i] = cc], cc, i + 2)
         ELSE SubLocaleFrom(url, cc, i + 1)

SubLocale(url, cc) == SubLocaleFrom(url, cc, 2)

\* url.replace("apps.apple.com/", "apps.apple.com/cc/")
RECURSIVE ReplaceDomainFrom(_, _, _)
ReplaceDomainFrom(url, cc, i) ==
    IF i > Len(url) THEN <<>>
    ELSE IF url[i] = Domain /\ i < Len(url)
         THEN <<url[i], cc>> \o ReplaceDomainFrom(url, cc, i + 1)
         ELSE <<url[i]>> \o ReplaceDomainFrom(url, cc, i + 1)

ReplaceDomain(url, cc) == ReplaceDomainFrom(url, cc, 1)

\* AppStoreScraper._prepare_url, with self.country_code = country_code.lower()
PrepareUrl(url, country) ==
    LET cc == Lower(country) IN
    IF HasLocale(url) THEN SubLocale(url, cc) ELSE ReplaceDomain(url, cc)

\* lines 107-111 without the else branch
LookupPrepareUrlSubOnly(url, country) ==
    IF HasLocale(url) THEN SubLocale(url, country) ELSE url

\* lines 107-111 leaving the URL as it was typed
LookupPrepareUrlAsTyped(url, country) == url

\* TypesenseClient.get_existing_app_data, lines 107-111
LookupPrepareUrl(url, country) ==
    IF HasLocale(url) THEN SubLocale(url, country) ELSE ReplaceDomain(url, country)

\* re.search(r'id(\d+)', url): the first match, else "unknown_id"
RECURSIVE AppIdFrom(_, _)
AppIdFrom(url, i) ==
    IF i > Len(url) THEN "unknown_id"
    ELSE IF IdDigits(url[i]) # "" THEN IdDigits(url[i])
    ELSE AppIdFrom(url, i + 1)

ExtractAppId(url) == AppIdFrom(url, 1)

(***************************************************************************)
(* The Fetcher: keyword filter and competitor batch.                       *)
(***************************************************************************)
StopKeywords ==
    {"ios apps", "app", "appstore", "app store", "iphone", "ipad",
     "ipod touch", "itouch", "itunes", "apple"}

NoTag == [has_tag |-> FALSE, pieces |-> <<>>]

\* lines 65-68 comparing with the name and the subtitle as they are written
GetKeywordsFromSoupCaseSensitive(meta, app_name, app_subtitle) ==
    IF ~meta.has_tag THEN <<>>
    ELSE LET all_keywords == [i \in 1..Len(meta.pieces) |-> Lower(Strip(meta.pieces[i]))]
             Keep(k) == k \notin StopKeywords /\ k \notin {app_name, app_subtitle}
         IN  SelectSeq(all_keywords, Keep)

\* _get_keywords_from_soup: meta is the keywords tag, pieces its content
\* already split on ","
GetKeywordsFromSoup(meta, app_name, app_subtitle) ==
    IF ~meta.has_tag THEN <<>>
    ELSE LET all_keywords == [i \in 1..Len(meta.pieces) |-> Lower(Strip(meta.pieces[i]))]
             Keep(k) == /\ k \notin StopKeywords
                        /\ k \notin {Lower(app_name), Lower(app_subtitle)}
         IN  SelectSeq(all_keywords, Keep)

CompCap == 3    \* competitors[:3]

Min(a, b) == IF a < b THEN a ELSE b

\* line 99 without the slice
TopCompetitorsAll(comps) == comps

\* competitors[:3]
TopCompetitors(comps) == SubSeq(comps, 1, Min(CompCap, Len(comps)))

\* _fetch_competitor_keywords: fetched is [ok, meta], what session.get and
\* the parse of the page gave
FetchCompetitorKeywords(competitor, fetched, app_name, app_subtitle) ==
    IF fetched.ok
    THEN [appname |-> competitor.appname,
          keywords |-> GetKeywordsFromSoup(fetched.meta, app_name, app_subtitle)]
    ELSE NoneVal

\* line 101: [res for res in results if res]
FilterResults(res_list) ==
    LET IsResult(res) == res # NoneVal IN SelectSeq(res_list, IsResult)

(***************************************************************************)
(* The Catalog Store client.                                               *)
(*                                                                         *)
(* The search service is outside the repository.  The model gives it the   *)
(* contract the client relies on: a filter (:=) is exact; a text query     *)
(* ranks hits by match quality, an exact match of the queried field first, *)
(* and may also return documents that match only approximately; an import  *)
(* without an "id" field adds a document.                                  *)
(***************************************************************************)
NoHits == [found |-> FALSE, first |-> NoneVal]

\* line 120: the possible answers to q=prepared_app_url, query_by=appurl,
\* filter_by=country:=<country>
FactsSearch(q, country) ==
    LET passing == {d \in appDetails : d.country = country}
        exact == {d \in passing : d.appurl = q}
    IN  IF exact # {}
        THEN {[found |-> TRUE, first |-> d] : d \in exact}
        ELSE {NoHits} \cup {[found |-> TRUE, first |-> d] : d \in passing}

\* line 133: the possible answers to q=*, filter_by=appid:=<appid> && country:=<country>
KeywordSearch(appid, country) ==
    LET passing == {k \in aiKeywords : k.appid = appid /\ k.country = country}
    IN  IF passing = {} THEN {NoHits}
        ELSE {[found |-> TRUE, first |-> k] : k \in passing}

\* line 122 without the comparison
HitMatchesAny(hit, prepared_app_url) == TRUE

\* line 122: hits[0]['document']['appurl'] == prepared_app_url
HitMatches(hit, prepared_app_url) == hit.appurl = prepared_app_url

\* the keyword search's error handled as a miss
OnKeywordSearchErrorKeepDetails(app_details_doc) == <<app_details_doc, NoneVal>>

\* what get_existing_app_data returns when the keyword search raises
OnKeywordSearchError(app_details_doc) == <<NoneVal, NoneVal>>

\* get_existing_app_data, given what the two searches do: err1/err2 say that
\* the search raised, r1/r2 are the answers otherwise
GetExistingAppData(url, country, err1, r1, err2, r2) ==
    LET prepared_app_url == LookupPrepareUrl(url, country) IN
    IF err1 THEN <<NoneVal, NoneVal>>                                \* lines 138-140
    ELSE IF r1.found /\ HitMatches(r1.first, prepared_app_url)
         THEN LET app_details_doc == r1.first IN
              IF app_details_doc.appid = "" THEN <<app_details_doc, NoneVal>>   \* line 128
              ELSE IF err2 THEN OnKeywordSearchError(app_details_doc) \* lines 138-140
              ELSE IF r2.found THEN <<app_details_doc, r2.first>>    \* line 136
              ELSE <<app_details_doc, NoneVal>>                      \* line 137
         ELSE <<NoneVal, NoneVal>>                                   \* line 140

\* ingestAppDetails: the document written (lines 145-152)
FactsDocument(doc_to_ingest, country, uid) ==
    [f \in DOMAIN doc_to_ingest \cup {"uid", "country"} |->
        CASE f = "uid" -> uid
          [] f = "country" -> country
          [] OTHER -> doc_to_ingest[f]]

\* ', '.join(keywords)
RECURSIVE JoinComma(_)
JoinComma(q) ==
    IF Len(q) = 0 THEN <<>>
    ELSE IF Len(q) = 1 THEN <<q[1]>>
    ELSE <<q[1], ", ">> \o JoinComma(Tail(q))

\* f"{name}: {', '.join(keywords)}"
FlatKeywords(name, keywords) == <<name, ": ">> \o JoinComma(keywords)

\* whether ', '.join(v) works on the parsed value v: a list of strings
Joinable(v) == v.kind = "list" /\ \A i \in 1..Len(v.items) : v.items[i].kind = "str"

StrsOf(v) == [i \in 1..Len(v.items) |-> v.items[i].s]

\* ai_response.get("aikeywords", {"appKeywords": [], "compKeywords": {}})
AikeywordsData(ai_resp) ==
    IF HasKey(ai_resp, "aikeywords") THEN GetKey(ai_resp, "aikeywords")
    ELSE JObj(<<Pair("appKeywords", JList(<<>>)), Pair("compKeywords", JObj(<<>>))>>)

\* lines 168-174 raise (AttributeError, TypeError) unless this holds
CanBuildKeywordDocument(ai_resp) ==
    LET aikeywords_data == AikeywordsData(ai_resp) IN
    /\ aikeywords_data.kind = "obj"
    /\ HasKey(aikeywords_data, "compKeywords") =>
          LET comp_keywords_dict == GetKey(aikeywords_data, "compKeywords") IN
          /\ comp_keywords_dict.kind = "obj"
          /\ \A i \in 1..Len(comp_keywords_dict.items) : Joinable(comp_keywords_dict.items[i].v)

\* line 178 with the field left unset
LinkUidUnset(app_details_uid) == 0

\* the app_uid field of the keyword-set document (line 178)
LinkUid(app_details_uid) == app_details_uid

\* ingestAIKeywords: the document built at lines 168-188
KeywordDocument(ai_resp, original_app_details, app_details_uid, app_id, country, uid) ==
    LET aikeywords_data == AikeywordsData(ai_resp)
        comp_keywords_dict == IF HasKey(aikeywords_data, "compKeywords")
                              THEN GetKey(aikeywords_data, "compKeywords") ELSE JObj(<<>>)
        comps == original_app_details.competitor_apps
        comp_kws == original_app_details.competitor_apps_keywords
    IN  [uid |-> uid,
         app_uid |-> LinkUid(app_details_uid),
         appid |-> app_id,
         country |-> country,
         keywords |-> original_app_details.keywords,
         competitor_apps |-> [i \in 1..Len(comps) |-> comps[i].appname],
         competitor_apps_keywords |->
             [i \in 1..Len(comp_kws) |-> FlatKeywords(comp_kws[i].appname, comp_kws[i].keywords)],
         ai_keywords |-> IF HasKey(aikeywords_data, "appKeywords")
                         THEN GetKey(aikeywords_data, "appKeywords") ELSE JList(<<>>),
         ai_comp_keywords |->
             [i \in 1..Len(comp_keywords_dict.items) |->
                 FlatKeywords(comp_keywords_dict.items[i].k, StrsOf(comp_keywords_dict.items[i].v))]]

(***************************************************************************)
(* Inputs of the button handler.                                           *)
(***************************************************************************)
UrlA == <<"https:", "", Domain, "us", "app", "id1">>
UrlB == <<"https:", "", Domain, "app", "id1">>              \* no locale segment
UrlC == <<"https:", "", Domain, "us", "app", "foo">>        \* no id
UrlD == <<"https:", "", Domain, "us", "app", "bar", "id1">> \* another URL, same id
UrlEmpty == <<>>                                            \* the field left empty

Urls == {UrlA, UrlB, UrlC, UrlD, UrlEmpty}

Countries == {"us", "in"}       \* two of the keys of country_options

CountryOptions == {"us", "in", "ar", "au"}      \* the keys of country_options

CompName(i) ==
    CASE i = 1 -> "Comp1" [] i = 2 -> "Comp2" [] i = 3 -> "Comp3"
      [] i = 4 -> "Comp4" [] i = 5 -> "Comp5" [] OTHER -> "Comp6"

CompUrl(i) ==
    CASE i = 1 -> "/app/comp1" [] i = 2 -> "/app/comp2" [] i = 3 -> "/app/comp3"
      [] i = 4 -> "/app/comp4" [] i = 5 -> "/app/comp5" [] OTHER -> "/app/comp6"

\* the keywords tag of competitor i's page
CompMeta(i) ==
    CASE i = 1 -> [has_tag |-> TRUE, pieces |-> <<"photo", "MyApp", "iphone">>]
      [] i = 2 -> NoTag
      [] OTHER -> [has_tag |-> TRUE, pieces |-> <<" edit">>]

\* the "You Might Also Like" lockups of a page with n of them
CompetitorsOf(n) == [i \in 1..n |-> [appname |-> CompName(i), appurl |-> CompUrl(i), pos |-> i]]

\* a listing page as parsed: lines 118-180
PageOf(n) ==
    IF n = 0
    THEN [appname |-> "Not Found", appsubtitle |-> "Not Found", meta |-> NoTag,
          competitors |-> <<>>]
    ELSE [appname |-> "MyApp", appsubtitle |-> "Fast Edit",
          meta |-> [has_tag |-> TRUE,
                    pieces |-> <<" Photo ", "APP", " Fast Edit", "MyApp", " edit">>],
          competitors |-> CompetitorsOf(n)]

\* the listing pages and competitor fetch outcomes tried in the handler: a
\* page with MaxComp competitors, every fetch succeeding or the second failing
PipelinePageSizes == {MaxComp}

PipelineOutcomes(n) ==
    {[i \in 1..Min(CompCap, n) |-> TRUE], [i \in 1..Min(CompCap, n) |-> i # 2]}

\* the replies of the model tried in the handler
PipelineResponses ==
    {[raises |-> TRUE, is_str |-> TRUE, content |-> <<>>],
     [raises |-> FALSE, is_str |-> TRUE, content |-> <<"p">>],
     [raises |-> FALSE, is_str |-> TRUE,
      content |-> <<"fence", "{", "aik:", "{", "appK:", "[a,b]", ",", "comp:", "{",
                    "c1:", "[a,b]", "}", "}", "}", "fence">>],
     [raises |-> FALSE, is_str |-> TRUE, content |-> <<"{", "aik:", "[appK]", "}">>]}

(***************************************************************************)
(* AppStoreScraper(app_url, country_code).scrape()                         *)
(***************************************************************************)
\* lines 99-101 with every task run to its end: outcomes[i] says whether the
\* fetch of the i-th top competitor succeeded
GatherCompetitors(comps, outcomes, app_name, app_subtitle) ==
    LET top == TopCompetitors(comps)
        res_list == [i \in 1..Len(top) |->
                      FetchCompetitorKeywords(top[i],
                          [ok |-> outcomes[i], meta |-> CompMeta(top[i].pos)],
                          app_name, app_subtitle)]
    IN  FilterResults(res_list)

StripPos(comps) ==
    [i \in 1..Len(comps) |-> [appname |-> comps[i].appname, appurl |-> comps[i].appurl]]

\* the record returned at lines 188-201 (the fields copied unread from the
\* page, rating, size, category, screenshots and description, are left out)
Scrape(url, country, page, outcomes) ==
    LET url_to_scrape == PrepareUrl(url, country) IN
    [appid |-> ExtractAppId(url_to_scrape),
     appurl |-> url_to_scrape,
     appname |-> page.appname,
     appsubtitle |-> page.appsubtitle,
     keywords |-> GetKeywordsFromSoup(page.meta, page.appname, page.appsubtitle),
     competitor_apps |-> StripPos(page.competitors),
     competitor_apps_keywords |->
         GatherCompetitors(page.competitors, outcomes, page.appname, page.appsubtitle)]

(***************************************************************************)
(* The collections of the store and their schemas.                         *)
(***************************************************************************)
CollectionNames == {"appDetails", "aiKeywords"}

\* both collections exist with the schemas of lines 40-58 and 71-86
BothDeclared == [c \in CollectionNames |-> "declared"]

\* the values of norm and filt while no call is under way
NormOff == [pc |-> "off", app_url |-> <<>>, country_code |-> "", once |-> <<>>, twice |-> <<>>,
            looked |-> FALSE, searched |-> <<>>]

FiltOff == [pc |-> "off", meta |-> NoTag, app_name |-> "", app_subtitle |-> "",
            keywords |-> <<>>]

(***************************************************************************)
(* The button handler, app.py lines 26-86, one action per component call.  *)
(***************************************************************************)
\* the truth value of a dict or None
Truthy(x) == x # NoneVal /\ (("kind" \in DOMAIN x /\ x.kind = "obj") => Len(x.items) > 0)

\* line 32 never taking the branch: the pipeline runs whatever the lookup found
ShortCircuitNever(details, keywords) == FALSE

\* line 32
ShortCircuit(details, keywords) == Truthy(details) /\ Truthy(keywords)

\* line 45
ProceedAfterScrape(details) == Truthy(details)

\* line 50
ProceedAfterSynthesis(resp) == Truthy(resp)

\* line 67 without the test
ProceedAfterIngestAlways(success) == TRUE

\* line 67
ProceedAfterIngest(success) == success

\* lines 55-63 without the flattening and the two pops
DocToIngestAsScraped(details) == details

\* lines 55-63: f"{comp['appname']} ({comp['appurl']})", and the two pops
DocToIngest(details) ==
    [f \in DOMAIN details \ {"keywords", "competitor_apps_keywords"} |->
        IF f = "competitor_apps"
        THEN [i \in 1..Len(details.competitor_apps) |->
                <<details.competitor_apps[i].appname, " (",
                  details.competitor_apps[i].appurl, ")">>]
        ELSE details[f]]

NoRet == [success |-> FALSE, uid |-> 0]

Call(op, ok) == [op |-> op, ok |-> ok]

HasCall(op, ok) == \E i \in 1..Len(calls) : calls[i] = Call(op, ok)

Called(op) == \E i \in 1..Len(calls) : calls[i].op = op

Snapshot == [appDetails |-> appDetails, aiKeywords |-> aiKeywords]

Init ==
    /\ appDetails = {}
    /\ aiKeywords = {}
    /\ nextUid = 1
    /\ run = 0
    /\ pc = "idle"
    /\ app_url = UrlEmpty
    /\ country_code = "us"
    /\ existing_details = NoneVal
    /\ existing_keywords = NoneVal
    /\ app_details = NoneVal
    /\ ai_response = NoneVal
    /\ ingest_ret = NoRet
    /\ msgs = <<>>
    /\ calls = <<>>
    /\ store0 = [appDetails |-> {}, aiKeywords |-> {}]
    /\ ingested = {}
    /\ response = [raises |-> FALSE, is_str |-> TRUE, content |-> <<>>]
    /\ synth_pc = "off"
    /\ extracted = [found |-> FALSE, json_str |-> <<>>]
    /\ synth_result = NoneVal
    /\ batch_pc = "off"
    /\ competitors = <<>>
    /\ tasks = <<>>
    /\ results = <<>>
    /\ finish_order = <<>>
    /\ batch_result = <<>>
    /\ norm = NormOff
    /\ filt = FiltOff
    /\ collections = BothDeclared
    /\ schema_log = <<>>

\* lines 26-28 and 85-86: the button is pressed with the form's two values
Press(url, country) ==
    /\ pc \in {"idle", "done"}
    /\ run' = run + 1
    /\ app_url' = url
    /\ country_code' = country
    /\ existing_details' = NoneVal
    /\ existing_keywords' = NoneVal
    /\ app_details' = NoneVal
    /\ ai_response' = NoneVal
    /\ ingest_ret' = NoRet
    /\ calls' = <<>>
    /\ store0' = Snapshot
    /\ ingested' = ingested \cup
          (IF HasCall("ingestAppDetails", TRUE) /\ HasCall("ingestAIKeywords", TRUE)
           THEN {<<app_url, country_code>>} ELSE {})
    /\ IF url = UrlEmpty
       THEN pc' = "done" /\ msgs' = <<"warning: enter an App URL">>
       ELSE pc' = "check" /\ msgs' = <<>>
    /\ UNCHANGED storeVars

\* whether a search of the lookup raised
LookupRaised(url, country, err1, r1, err2) ==
    \/ err1
    \/ /\ r1.found
       /\ HitMatches(r1.first, LookupPrepareUrl(url, country))
       /\ r1.first.appid # ""
       /\ err2

\* lines 29-38
CheckExisting ==
    /\ pc = "check"
    /\ \E err1 \in BOOLEAN, err2 \in BOOLEAN :
       \E r1 \in FactsSearch(LookupPrepareUrl(app_url, country_code), country_code) :
       \E r2 \in (IF r1.found THEN KeywordSearch(r1.first.appid, country_code) ELSE {NoHits}) :
          LET res == GetExistingAppData(app_url, country_code, err1, r1, err2, r2) IN
          /\ existing_details' = res[1]
          /\ existing_keywords' = res[2]
          /\ calls' = Append(calls,
                 Call("lookup", ~LookupRaised(app_url, country_code, err1, r1, err2)))
          /\ IF ShortCircuit(res[1], res[2])
             THEN pc' = "done" /\ msgs' = <<"App Details", "AI Generated Keywords">>
             ELSE pc' = "fetch" /\ msgs' = msgs
    /\ UNCHANGED <<storeVars, run, app_url, country_code, app_details, ai_response,
                   ingest_ret, store0, ingested>>

\* lines 40-45 and 83-84
Fetch ==
    /\ pc = "fetch"
    /\ \E ok \in BOOLEAN, n \in PipelinePageSizes :
       \E outcomes \in PipelineOutcomes(n) :
          LET details == IF ok THEN Scrape(app_url, country_code, PageOf(n), outcomes)
                         ELSE NoneVal
          IN  /\ app_details' = details
              /\ calls' = Append(calls, Call("scrape", ok))
              /\ IF ProceedAfterScrape(details)
                 THEN pc' = "synth" /\ msgs' = msgs
                 ELSE pc' = "done" /\ msgs' = Append(msgs, "error: failed to scrape")
    /\ UNCHANGED <<storeVars, run, app_url, country_code, existing_details,
                   existing_keywords, ai_response, ingest_ret, store0, ingested>>

\* lines 46-52 and 81-82; an exception of generateKeywords ends the script
Synthesize ==
    /\ pc = "synth"
    /\ \E resp \in PipelineResponses :
          LET r == GenerateKeywords(resp) IN
          /\ calls' = Append(calls, Call("generate", r \notin {Raised, NoneVal}))
          /\ IF r = Raised
             THEN /\ ai_response' = NoneVal
                  /\ pc' = "done"
                  /\ msgs' = Append(msgs, "uncaught exception")
             ELSE /\ ai_response' = r
                  /\ IF ProceedAfterSynthesis(r)
                     THEN pc' = "persist_record" /\ msgs' = Append(msgs, "AI Generated Keywords:")
                     ELSE pc' = "done" /\ msgs' = Append(msgs, "error: failed to generate")
    /\ UNCHANGED <<storeVars, run, app_url, country_code, existing_details,
                   existing_keywords, app_details, ingest_ret, store0, ingested>>

\* lines 54-67 and 79-80, with ingestAppDetails; ok: import_ did not raise
PersistRecord ==
    /\ pc = "persist_record"
    /\ \E ok \in BOOLEAN :
          LET uid == nextUid
              doc == FactsDocument(DocToIngest(app_details), country_code, uid)
          IN  /\ nextUid' = nextUid + 1
              /\ appDetails' = IF ok THEN appDetails \cup {doc} ELSE appDetails
              /\ ingest_ret' = [success |-> ok, uid |-> IF ok THEN uid ELSE 0]
              /\ calls' = Append(calls, Call("ingestAppDetails", ok))
              /\ IF ProceedAfterIngest(ok)
                 THEN pc' = "persist_keywords" /\ msgs' = msgs
                 ELSE pc' = "done" /\ msgs' = Append(msgs, "error: failed to ingest app details")
    /\ UNCHANGED <<aiKeywords, run, app_url, country_code, existing_details,
                   existing_keywords, app_details, ai_response, store0, ingested>>

\* lines 68-78, with ingestAIKeywords; ok: import_ did not raise
PersistKeywords ==
    /\ pc = "persist_keywords"
    /\ \E ok \in BOOLEAN :
          LET app_id == app_details.appid
              built == CanBuildKeywordDocument(ai_response)
              stored == built /\ ok
              doc == KeywordDocument(ai_response, app_details, ingest_ret.uid, app_id,
                                     country_code, nextUid)
          IN  /\ nextUid' = IF built THEN nextUid + 1 ELSE nextUid
              /\ aiKeywords' = IF stored THEN aiKeywords \cup {doc} ELSE aiKeywords
              /\ calls' = Append(calls, Call("ingestAIKeywords", stored))
              /\ msgs' = msgs
                         \o (IF app_id = "unknown_id"
                             THEN <<"error: could not determine appid">> ELSE <<>>)
                         \o <<"success">>
              /\ pc' = "done"
    /\ UNCHANGED <<appDetails, run, app_url, country_code, existing_details,
                   existing_keywords, app_details, ai_response, ingest_ret, store0, ingested>>

Next ==
    \/ /\ run < MaxRuns
       /\ \E url \in Urls, country \in Countries : Press(url, country)
       /\ UNCHANGED <<synthVars, batchVars, pureVars, schemaVars>>
    \/ CheckExisting /\ UNCHANGED <<synthVars, batchVars, pureVars, schemaVars>>
    \/ Fetch /\ UNCHANGED <<synthVars, batchVars, pureVars, schemaVars>>
    \/ Synthesize /\ UNCHANGED <<synthVars, batchVars, pureVars, schemaVars>>
    \/ PersistRecord /\ UNCHANGED <<synthVars, batchVars, pureVars, schemaVars>>
    \/ PersistKeywords /\ UNCHANGED <<synthVars, batchVars, pureVars, schemaVars>>

(***************************************************************************)
(* SpecSynth: generateKeywords applied to each response.                   *)
(***************************************************************************)
SynthInit ==
    /\ response \in Responses
    /\ synth_pc = "ready"
    /\ extracted = NoExtract
    /\ synth_result = NoneVal
    /\ appDetails = {}
    /\ aiKeywords = {}
    /\ nextUid = 1
    /\ run = 0
    /\ pc = "off"
    /\ app_url = UrlEmpty
    /\ country_code = "us"
    /\ existing_details = NoneVal
    /\ existing_keywords = NoneVal
    /\ app_details = NoneVal
    /\ ai_response = NoneVal
    /\ ingest_ret = NoRet
    /\ msgs = <<>>
    /\ calls = <<>>
    /\ store0 = [appDetails |-> {}, aiKeywords |-> {}]
    /\ ingested = {}
    /\ batch_pc = "off"
    /\ competitors = <<>>
    /\ tasks = <<>>
    /\ results = <<>>
    /\ finish_order = <<>>
    /\ batch_result = <<>>
    /\ norm = NormOff
    /\ filt = FiltOff
    /\ collections = BothDeclared
    /\ schema_log = <<>>

SynthGenerate ==
    /\ synth_pc = "ready"
    /\ UNCHANGED <<storeVars, runVars, batchVars, pureVars, schemaVars>>
    /\ synth_pc' = "done"
    /\ extracted' = IF response.raises \/ ~response.is_str
                    THEN NoExtract ELSE ExtractJson(response.content)
    /\ synth_result' = GenerateKeywords(response)
    /\ UNCHANGED response

SynthNext == SynthGenerate

SpecSynth == SynthInit /\ [][SynthNext]_vars

Spec == Init /\ [][Next]_vars

\* SpecRerun: the handler pressed up to MaxReruns times for one country with
\* URLs of the same app, every component behaving as in Spec
RerunUrls == {UrlA, UrlD}

RerunNext ==
    \/ /\ run < MaxReruns
       /\ \E url \in RerunUrls : Press(url, "us")
       /\ UNCHANGED <<synthVars, batchVars, pureVars, schemaVars>>
    \/ CheckExisting /\ UNCHANGED <<synthVars, batchVars, pureVars, schemaVars>>
    \/ Fetch /\ UNCHANGED <<synthVars, batchVars, pureVars, schemaVars>>
    \/ Synthesize /\ UNCHANGED <<synthVars, batchVars, pureVars, schemaVars>>
    \/ PersistRecord /\ UNCHANGED <<synthVars, batchVars, pureVars, schemaVars>>
    \/ PersistKeywords /\ UNCHANGED <<synthVars, batchVars, pureVars, schemaVars>>

SpecRerun == Init /\ [][RerunNext]_vars

\* the handler under a scheduler that lets every call return or fail: a step
\* that can be taken is taken
SpecFair == Spec /\ WF_vars(Next)

(***************************************************************************)
(* SpecBatch: _scrape_competitors_concurrently on a page's competitors.    *)
(* Line 99 creates one coroutine per competitor of competitors[:3]; gather *)
(* runs them concurrently, each ending when its fetch succeeds or fails,   *)
(* in any order; gather returns the results by position once all have      *)
(* ended, and raises as soon as one of them raises.                        *)
(***************************************************************************)
\* the main app's name and subtitle, set by scrape() before the batch
MainName == "MyApp"
MainSubtitle == "Fast Edit"

BatchInit ==
    /\ batch_pc = "gathering"
    /\ \E n \in 0..MaxComp :
          /\ competitors = CompetitorsOf(n)
          /\ tasks = [i \in 1..Len(TopCompetitors(CompetitorsOf(n))) |-> "running"]
          /\ results = [i \in 1..Len(TopCompetitors(CompetitorsOf(n))) |-> NoneVal]
    /\ finish_order = <<>>
    /\ batch_result = <<>>
    /\ appDetails = {}
    /\ aiKeywords = {}
    /\ nextUid = 1
    /\ run = 0
    /\ pc = "off"
    /\ app_url = UrlEmpty
    /\ country_code = "us"
    /\ existing_details = NoneVal
    /\ existing_keywords = NoneVal
    /\ app_details = NoneVal
    /\ ai_response = NoneVal
    /\ ingest_ret = NoRet
    /\ msgs = <<>>
    /\ calls = <<>>
    /\ store0 = [appDetails |-> {}, aiKeywords |-> {}]
    /\ ingested = {}
    /\ response = [raises |-> FALSE, is_str |-> TRUE, content |-> <<>>]
    /\ synth_pc = "off"
    /\ extracted = [found |-> FALSE, json_str |-> <<>>]
    /\ synth_result = NoneVal
    /\ norm = NormOff
    /\ filt = FiltOff
    /\ collections = BothDeclared
    /\ schema_log = <<>>

\* the end of task i: ok says whether session.get, raise_for_status and
\* response.text() all went through
TaskEnd(i, ok) ==
    /\ batch_pc = "gathering"
    /\ i \in DOMAIN tasks
    /\ tasks[i] = "running"
    /\ LET res == FetchCompetitorKeywords(competitors[i],
                      [ok |-> ok, meta |-> CompMeta(competitors[i].pos)],
                      MainName, MainSubtitle)
       IN  /\ results' = [results EXCEPT ![i] = res]
           /\ tasks' = [tasks EXCEPT ![i] = IF ok THEN "ok" ELSE "failed"]
    /\ finish_order' = Append(finish_order, i)
    /\ UNCHANGED <<batch_pc, competitors, batch_result>>

TaskSucceed(i) == TaskEnd(i, TRUE)

TaskFail(i) == TaskEnd(i, FALSE)

\* lines 100-101 collecting the results as the tasks complete
GatherEndByCompletion ==
    /\ batch_pc = "gathering"
    /\ LET raised == \E i \in DOMAIN tasks : results[i] = Raised
           running == \E i \in DOMAIN tasks : tasks[i] = "running"
       IN  /\ raised \/ ~running
           /\ IF raised
              THEN /\ batch_pc' = "raised"
                   /\ batch_result' = <<>>
                   /\ tasks' = [i \in DOMAIN tasks |->
                                  IF tasks[i] = "running" THEN "cancelled" ELSE tasks[i]]
              ELSE /\ batch_pc' = "returned"
                   /\ batch_result' = FilterResults([k \in 1..Len(finish_order) |->
                                                       results[finish_order[k]]])
                   /\ tasks' = tasks
    /\ UNCHANGED <<competitors, results, finish_order>>

\* line 100-101: await asyncio.gather(*tasks), then the filter
GatherEnd ==
    /\ batch_pc = "gathering"
    /\ LET raised == \E i \in DOMAIN tasks : results[i] = Raised
           running == \E i \in DOMAIN tasks : tasks[i] = "running"
       IN  /\ raised \/ ~running
           /\ IF raised
              THEN /\ batch_pc' = "raised"
                   /\ batch_result' = <<>>
                   /\ tasks' = [i \in DOMAIN tasks |->
                                  IF tasks[i] = "running" THEN "cancelled" ELSE tasks[i]]
              ELSE /\ batch_pc' = "returned"
                   /\ batch_result' = FilterResults(results)
                   /\ tasks' = tasks
    /\ UNCHANGED <<competitors, results, finish_order>>

BatchNext ==
    \/ /\ \E i \in DOMAIN tasks : TaskSucceed(i)
       /\ UNCHANGED <<storeVars, runVars, synthVars, pureVars, schemaVars>>
    \/ /\ \E i \in DOMAIN tasks : TaskFail(i)
       /\ UNCHANGED <<storeVars, runVars, synthVars, pureVars, schemaVars>>
    \/ GatherEnd /\ UNCHANGED <<storeVars, runVars, synthVars, pureVars, schemaVars>>

SpecBatch == BatchInit /\ [][BatchNext]_vars

(***************************************************************************)
(* SpecUrl: the scraper's URL preparation, applied to a URL and then to    *)
(* its own result with the same country code.                              *)
(***************************************************************************)
PathSeg == {"us", "go", "app", "id1", ""}

\* store URLs: https://apps.apple.com followed by at most MaxPathLen segments
UrlInputs == {<<"https:", "", Domain>> \o t : t \in SeqsUpTo(PathSeg, MaxPathLen)}

\* the keys of country_options, and one code in capitals
CountryInputs == CountryOptions \cup {"IN"}

UrlInit ==
    /\ norm \in {[pc |-> "ready", app_url |-> u, country_code |-> c,
                  once |-> <<>>, twice |-> <<>>, looked |-> FALSE, searched |-> <<>>] :
                    u \in UrlInputs, c \in CountryInputs}
    /\ filt = FiltOff
    /\ collections = BothDeclared
    /\ schema_log = <<>>
    /\ appDetails = {}
    /\ aiKeywords = {}
    /\ nextUid = 1
    /\ run = 0
    /\ pc = "off"
    /\ app_url = UrlEmpty
    /\ country_code = "us"
    /\ existing_details = NoneVal
    /\ existing_keywords = NoneVal
    /\ app_details = NoneVal
    /\ ai_response = NoneVal
    /\ ingest_ret = NoRet
    /\ msgs = <<>>
    /\ calls = <<>>
    /\ store0 = [appDetails |-> {}, aiKeywords |-> {}]
    /\ ingested = {}
    /\ response = [raises |-> FALSE, is_str |-> TRUE, content |-> <<>>]
    /\ synth_pc = "off"
    /\ extracted = [found |-> FALSE, json_str |-> <<>>]
    /\ synth_result = NoneVal
    /\ batch_pc = "off"
    /\ competitors = <<>>
    /\ tasks = <<>>
    /\ results = <<>>
    /\ finish_order = <<>>
    /\ batch_result = <<>>

\* AppStoreScraper(app_url, country_code).url_to_scrape
PrepareOnce ==
    /\ norm.pc = "ready"
    /\ norm' = [norm EXCEPT !.pc = "once",
                            !.once = PrepareUrl(norm.app_url, norm.country_code)]
    /\ UNCHANGED <<storeVars, runVars, synthVars, batchVars, filt, schemaVars>>

\* AppStoreScraper(url_to_scrape, country_code).url_to_scrape
PrepareAgain ==
    /\ norm.pc = "once"
    /\ norm' = [norm EXCEPT !.pc = "done",
                            !.twice = PrepareUrl(norm.once, norm.country_code)]
    /\ UNCHANGED <<storeVars, runVars, synthVars, batchVars, filt, schemaVars>>

\* get_existing_app_data(app_url, country): the URL it searches for
LookupPrepare ==
    /\ norm.pc # "off"
    /\ ~norm.looked
    /\ norm' = [norm EXCEPT !.looked = TRUE,
                            !.searched = LookupPrepareUrl(norm.app_url, norm.country_code)]
    /\ UNCHANGED <<storeVars, runVars, synthVars, batchVars, filt, schemaVars>>

UrlNext == PrepareOnce \/ PrepareAgain \/ LookupPrepare

SpecUrl == UrlInit /\ [][UrlNext]_vars

(***************************************************************************)
(* SpecFilter: _get_keywords_from_soup on a page's keywords tag, for a     *)
(* scraper whose app_name and app_subtitle are set.                        *)
(***************************************************************************)
\* the pieces content.split(',') can give
PieceTok == {" Photo ", "APP", "MyApp", " Fast Edit", " edit", ""}

\* split never returns an empty list
Contents == SeqsUpTo(PieceTok, MaxPieces) \ {<<>>}

\* the keywords tag: absent (or its content not a str), or present
Metas == {NoTag} \cup {[has_tag |-> TRUE, pieces |-> q] : q \in Contents}

\* self.app_name and self.app_subtitle, lines 121 and 124
Headers == {<<"MyApp", "Fast Edit">>, <<"Not Found", "Not Found">>, <<"Photo", "MyApp">>}

FilterInit ==
    /\ filt \in {[pc |-> "ready", meta |-> m, app_name |-> h[1], app_subtitle |-> h[2],
                  keywords |-> <<>>] : m \in Metas, h \in Headers}
    /\ norm = NormOff
    /\ collections = BothDeclared
    /\ schema_log = <<>>
    /\ appDetails = {}
    /\ aiKeywords = {}
    /\ nextUid = 1
    /\ run = 0
    /\ pc = "off"
    /\ app_url = UrlEmpty
    /\ country_code = "us"
    /\ existing_details = NoneVal
    /\ existing_keywords = NoneVal
    /\ app_details = NoneVal
    /\ ai_response = NoneVal
    /\ ingest_ret = NoRet
    /\ msgs = <<>>
    /\ calls = <<>>
    /\ store0 = [appDetails |-> {}, aiKeywords |-> {}]
    /\ ingested = {}
    /\ response = [raises |-> FALSE, is_str |-> TRUE, content |-> <<>>]
    /\ synth_pc = "off"
    /\ extracted = [found |-> FALSE, json_str |-> <<>>]
    /\ synth_result = NoneVal
    /\ batch_pc = "off"
    /\ competitors = <<>>
    /\ tasks = <<>>
    /\ results = <<>>
    /\ finish_order = <<>>
    /\ batch_result = <<>>

FilterKeywords ==
    /\ filt.pc = "ready"
    /\ filt' = [filt EXCEPT !.pc = "done",
                            !.keywords = GetKeywordsFromSoup(filt.meta, filt.app_name,
                                                             filt.app_subtitle)]
    /\ UNCHANGED <<storeVars, runVars, synthVars, batchVars, norm, schemaVars>>

FilterNext == FilterKeywords

SpecFilter == FilterInit /\ [][FilterNext]_vars

(***************************************************************************)
(* SpecSchema: appDetailsSchema and aiKeywordsSchema, called in any order  *)
(* on a store in which each collection is absent, exists with the schema   *)
(* the method declares ("declared"), or exists with another one ("other"). *)
(* The test collection_name in self.client.collections is the store's      *)
(* answer to whether the collection exists; the test and the create call   *)
(* can each fail, with a TypesenseAPIException ("api") or with another     *)
(* exception ("transport").                                                *)
(***************************************************************************)
SchemaStates == {"absent", "declared", "other"}

\* how a call goes: no failure, or a failure at the test or at the create
Failures ==
    {[at |-> "never", kind |-> "none"]}
    \cup {[at |-> a, kind |-> k] : a \in {"test", "create"}, k \in {"api", "transport"}}

\* lines 61 and 89 creating whatever the store holds
NeedsCreateAlways(collection_name, existing) == TRUE

\* lines 61 and 89: the else branch is taken when the collection is absent
NeedsCreate(collection_name, existing) == existing[collection_name] = "absent"

\* self.client.collections.create(schema): the store refuses (an API
\* exception) to create a collection that exists
CreateCollection(collection_name, existing) ==
    IF existing[collection_name] = "absent"
    THEN [existing EXCEPT ![collection_name] = "declared"]
    ELSE existing

\* the except clauses: line 66 catches Exception, line 95 only
\* typesense.exceptions.TypesenseAPIException
Catches(collection_name, kind) == collection_name = "appDetails" \/ kind = "api"

\* one call of a schema method, as the entry it adds to schema_log
SchemaCall(collection_name, existing, failure) ==
    LET tested == failure.at # "test"
        creating == tested /\ NeedsCreate(collection_name, existing)
        refused == creating /\ existing[collection_name] # "absent"
        failed == ~tested \/ (creating /\ failure.at = "create") \/ refused
        kind == IF refused /\ failure.at # "create" THEN "api" ELSE failure.kind
    IN  [name |-> collection_name,
         before |-> existing,
         after |-> IF creating /\ ~failed
                   THEN CreateCollection(collection_name, existing) ELSE existing,
         creates |-> IF creating THEN 1 ELSE 0,
         failed |-> failed,
         raised |-> failed /\ ~Catches(collection_name, kind)]

SchemaInit ==
    /\ collections \in [CollectionNames -> SchemaStates]
    /\ schema_log = <<>>
    /\ appDetails = {}
    /\ aiKeywords = {}
    /\ nextUid = 1
    /\ run = 0
    /\ pc = "off"
    /\ app_url = UrlEmpty
    /\ country_code = "us"
    /\ existing_details = NoneVal
    /\ existing_keywords = NoneVal
    /\ app_details = NoneVal
    /\ ai_response = NoneVal
    /\ ingest_ret = NoRet
    /\ msgs = <<>>
    /\ calls = <<>>
    /\ store0 = [appDetails |-> {}, aiKeywords |-> {}]
    /\ ingested = {}
    /\ response = [raises |-> FALSE, is_str |-> TRUE, content |-> <<>>]
    /\ synth_pc = "off"
    /\ extracted = [found |-> FALSE, json_str |-> <<>>]
    /\ synth_result = NoneVal
    /\ batch_pc = "off"
    /\ competitors = <<>>
    /\ tasks = <<>>
    /\ results = <<>>
    /\ finish_order = <<>>
    /\ batch_result = <<>>
    /\ norm = NormOff
    /\ filt = FiltOff

EnsureSchema(collection_name) ==
    /\ Len(schema_log) < MaxSchemaCalls
    /\ \E failure \in Failures :
          LET entry == SchemaCall(collection_name, collections, failure) IN
          /\ collections' = entry.after
          /\ schema_log' = Append(schema_log, entry)
    /\ UNCHANGED <<storeVars, runVars, synthVars, batchVars, pureVars>>

appDetailsSchema == EnsureSchema("appDetails")

aiKeywordsSchema == EnsureSchema("aiKeywords")

SchemaNext == appDetailsSchema \/ aiKeywordsSchema

SpecSchema == SchemaInit /\ [][SchemaNext]_vars

(***************************************************************************)
(* Properties of the button handler (Spec).                                *)
(***************************************************************************)
FoundBoth == existing_details # NoneVal /\ existing_keywords # NoneVal

\* C1: in a run whose existence check returns both a record and a keyword
\* set, the handler shows them and stops: the only call made is the lookup,
\* so no fetch, no synthesis and no upsert, and both collections are as they
\* were when the run began.
C1_ShortCircuit ==
    (Called("lookup") /\ FoundBoth) =>
        /\ pc = "done"
        /\ calls = <<Call("lookup", TRUE)>>
        /\ msgs = <<"App Details", "AI Generated Keywords">>
        /\ Snapshot = store0

C1_Witness == pc = "done" /\ Called("lookup") /\ FoundBoth

\* C2: the calls of a run are a prefix of lookup, scrape, generate,
\* ingestAppDetails, ingestAIKeywords, and each call after the lookup follows
\* a predecessor that succeeded (for the scrape: a lookup that did not find
\* both).
C2_StepOrder ==
    \A i \in 1..Len(calls) :
        CASE calls[i].op = "lookup" -> i = 1
          [] calls[i].op = "scrape" -> i = 2 /\ calls[1].op = "lookup" /\ ~FoundBoth
          [] calls[i].op = "generate" -> i = 3 /\ calls[2] = Call("scrape", TRUE)
          [] calls[i].op = "ingestAppDetails" -> i = 4 /\ calls[3] = Call("generate", TRUE)
          [] calls[i].op = "ingestAIKeywords" ->
                i = 5 /\ calls[4] = Call("ingestAppDetails", TRUE)
          [] OTHER -> FALSE

C2_Witness ==
    /\ Len(calls) = 5
    /\ calls[5].op = "ingestAIKeywords"
    /\ run > 1

\* the facts documents this run wrote
WrittenFacts == appDetails \ store0.appDetails

StepFailed == \E i \in 1..Len(calls) : calls[i].op # "lookup" /\ ~calls[i].ok

\* C3: when a step of a run failed, the store after the run holds no facts
\* document written by that run without a keyword-set document linking to it.
C3_NoPartialState ==
    (pc = "done" /\ StepFailed) =>
        \A d \in WrittenFacts : \E k \in aiKeywords : k.app_uid = d.uid

\* C4: once both upserts of a run for (app_url, country) succeeded, a later
\* run for the same (app_url, country) whose lookup reaches the store gets
\* both documents, and calls neither the Fetcher nor the Synthesizer.
C4_IdempotentLookup ==
    (<<app_url, country_code>> \in ingested /\ HasCall("lookup", TRUE)) =>
        /\ FoundBoth
        /\ ~Called("scrape")
        /\ ~Called("generate")
        /\ pc = "done"

C4_Witness ==
    /\ <<app_url, country_code>> \in ingested
    /\ HasCall("lookup", TRUE)
    /\ app_url = UrlB

\* C5: a synthesis that fails (the model call fails, the reply does not
\* parse, the reply lacks the keys) returns None: no exception reaches the
\* handler, the run ends with the "failed to generate" error and the store
\* is as it was.
C5_SynthesisFailureReturned ==
    HasCall("generate", FALSE) =>
        /\ ai_response = NoneVal
        /\ msgs = <<"error: failed to generate">>
        /\ Snapshot = store0

\* C8: a lookup in which a search raised returns (None, None), no exception
\* reaches the handler, and the handler goes on to the fetch.
C8_LookupErrorSwallowed ==
    HasCall("lookup", FALSE) =>
        /\ existing_details = NoneVal
        /\ existing_keywords = NoneVal
        /\ Len(calls) = 1 => (pc = "fetch" /\ msgs = <<>>)
        /\ Len(calls) > 1 => calls[2].op = "scrape"

\* a degraded lookup over a store that holds the record, then the whole chain
C8_Witness ==
    /\ HasCall("lookup", FALSE)
    /\ HasCall("ingestAIKeywords", TRUE)
    /\ \E d \in store0.appDetails :
          d.appurl = LookupPrepareUrl(app_url, country_code) /\ d.country = country_code

\* C9: the lookup returns (None, None), (record, None) or (record, keyword
\* set), never a keyword set alone; a record returned is a stored document
\* whose appurl is the normalized URL and whose country is the one asked for;
\* with no such document in the store it returns (None, None).
C9_LookupShape ==
    Called("lookup") =>
        LET q == LookupPrepareUrl(app_url, country_code)
            matching == {d \in store0.appDetails : d.appurl = q /\ d.country = country_code}
        IN  /\ existing_keywords # NoneVal => existing_details # NoneVal
            /\ existing_details # NoneVal => existing_details \in matching
            /\ existing_keywords # NoneVal => existing_keywords \in store0.aiKeywords
            /\ matching = {} => (existing_details = NoneVal /\ existing_keywords = NoneVal)

\* a record without a keyword set, found for a URL typed without its locale
C9_Witness ==
    /\ Called("lookup")
    /\ existing_details # NoneVal
    /\ existing_keywords = NoneVal
    /\ app_url = UrlB

\* the documents written by the current run
NewFacts == appDetails \ store0.appDetails
NewKeywordSets == aiKeywords \ store0.aiKeywords

\* e is the text "name: kw1, kw2, ..." for the given name and keywords
IsNameColonList(e, name, kws) ==
    /\ Len(e) = 2 + (IF Len(kws) = 0 THEN 0 ELSE 2 * Len(kws) - 1)
    /\ e[1] = name
    /\ e[2] = ": "
    /\ \A j \in 1..Len(kws) : e[2 * j + 1] = kws[j].s
    /\ \A j \in 1..(Len(kws) - 1) : e[2 * j + 2] = ", "

\* C13: when a run's facts upsert returned uid U and its keyword-set upsert
\* succeeded, the run wrote one keyword-set document, with app_uid = U (the
\* uid of the facts document the run wrote), the scraped appid, the requested
\* country, ai_keywords the synthesized appKeywords list and ai_comp_keywords
\* one "name: kw1, kw2" text per competitor of the synthesized mapping.
C13_KeywordSetDocument ==
    (pc = "done" /\ HasCall("ingestAppDetails", TRUE) /\ HasCall("ingestAIKeywords", TRUE)) =>
        LET synthesized == GetKey(ai_response, "aikeywords")
            mapping == IF HasKey(synthesized, "compKeywords")
                       THEN GetKey(synthesized, "compKeywords").items ELSE <<>>
        IN  \E d \in NewKeywordSets :
               /\ NewKeywordSets = {d}
               /\ d.app_uid = ingest_ret.uid
               /\ \E f \in NewFacts : NewFacts = {f} /\ f.uid = d.app_uid
               /\ d.appid = app_details.appid
               /\ d.country = country_code
               /\ d.ai_keywords = GetKey(synthesized, "appKeywords")
               /\ Len(d.ai_comp_keywords) = Len(mapping)
               /\ \A i \in 1..Len(mapping) :
                      IsNameColonList(d.ai_comp_keywords[i], mapping[i].k, mapping[i].v.items)

C13_Witness ==
    /\ pc = "done"
    /\ HasCall("ingestAIKeywords", TRUE)
    /\ \E d \in NewKeywordSets :
          /\ d.app_uid = ingest_ret.uid
          /\ d.ai_comp_keywords = << <<"Comp1", ": ", "a", ", ", "b">> >>

\* C14: no facts document has a keywords or a competitor_apps_keywords
\* field, and the competitor_apps of each is a list of "name (url)" texts,
\* for the document of the current run those of the scraped competitors.
C14_FactsDocument ==
    /\ \A f \in appDetails :
          /\ "keywords" \notin DOMAIN f
          /\ "competitor_apps_keywords" \notin DOMAIN f
          /\ \A i \in 1..Len(f.competitor_apps) :
                /\ Len(f.competitor_apps[i]) = 4
                /\ f.competitor_apps[i][2] = " ("
                /\ f.competitor_apps[i][4] = ")"
    /\ \A f \in NewFacts :
          /\ Len(f.competitor_apps) = Len(app_details.competitor_apps)
          /\ \A i \in 1..Len(f.competitor_apps) :
                /\ f.competitor_apps[i][1] = app_details.competitor_apps[i].appname
                /\ f.competitor_apps[i][3] = app_details.competitor_apps[i].appurl

C14_Witness ==
    \E f \in NewFacts :
        /\ Len(f.competitor_apps) = MaxComp
        /\ f.competitor_apps[1] = <<"Comp1", " (", "/app/comp1", ")">>
        /\ Len(app_details.keywords) > 0

Shown(m) == \E i \in 1..Len(msgs) : msgs[i] = m

\* C16: a run shows the success message only if its keyword-set upsert
\* succeeded; when that upsert fails the run shows a failure instead.
C16_SuccessOnlyIfStored ==
    (pc = "done" /\ Called("ingestAIKeywords")) =>
        IF HasCall("ingestAIKeywords", TRUE)
        THEN Shown("success")
        ELSE ~Shown("success")

\* C19: when the scraped record's appid is "unknown_id" the run shows that
\* keywords cannot be ingested and writes no keyword-set document.
C19_UnknownIdNotIngested ==
    (/\ pc = "done"
     /\ app_details # NoneVal
     /\ app_details.appid = "unknown_id"
     /\ HasCall("ingestAppDetails", TRUE)) =>
        /\ Shown("error: could not determine appid")
        /\ ~Called("ingestAIKeywords")
        /\ NewKeywordSets = {}

\* the outcomes a run can show
ShowsCached == msgs = <<"App Details", "AI Generated Keywords">>
ShowsGenerated == Shown("success")
ShowsError ==
    \E m \in {"error: failed to scrape", "error: failed to generate",
               "error: failed to ingest app details", "error: could not determine appid",
               "uncaught exception"} : Shown(m)

OutcomeCount ==
    (IF ShowsCached THEN 1 ELSE 0) + (IF ShowsGenerated THEN 1 ELSE 0)
    + (IF ShowsError THEN 1 ELSE 0)

\* a run started with a URL ends, when every step that can be taken is taken
Terminates == [](pc \in {"check", "fetch", "synth", "persist_record", "persist_keywords"}
                  => <>(pc = "done"))

\* C20: a run started with a non-empty URL that has ended shows exactly one
\* outcome: the cached result, the generated result, or an error.
C20_OneOutcome ==
    (pc = "done" /\ run > 0 /\ app_url # UrlEmpty) => OutcomeCount = 1

\* C21: whenever the lookup returns both a record and a keyword set, the
\* keyword set's app_uid is the record's uid, whatever runs came before, also
\* for URLs that share an appid.
C21_KeywordSetBelongs ==
    (Called("lookup") /\ FoundBoth) => existing_keywords.app_uid = existing_details.uid

\* C22: a run whose existence check reached the store adds no facts document
\* for a (prepared URL, country) that the collection already held when the
\* run began, so the collection keeps at most one document per pair.
C22_OneFactsDocumentPerUrl ==
    HasCall("lookup", TRUE) =>
        \A f \in NewFacts : \A g \in store0.appDetails :
            ~(g.appurl = f.appurl /\ g.country = f.country)

(***************************************************************************)
(* Properties of generateKeywords (SpecSynth).                             *)
(***************************************************************************)
Returned == synth_pc = "done" /\ ~response.raises /\ response.is_str

SetMin(S) == CHOOSE x \in S : \A y \in S : x <= y
SetMax(S) == CHOOSE x \in S : \A y \in S : x >= y

Opens == {i \in 1..Len(response.content) : response.content[i] = "{"}
Closes == {j \in 1..Len(response.content) : response.content[j] = "}"}
HasBracePair == \E i \in Opens : \E j \in Closes : i < j

\* the reply from its first { to its last }
Braced == SubSeq(response.content, SetMin(Opens), SetMax(Closes))

\* the parsed text is an object whose "aikeywords" is an object holding an
\* "appKeywords" list
WellFormed(data) ==
    /\ data.kind = "obj"
    /\ HasKey(data, "aikeywords")
    /\ GetKey(data, "aikeywords").kind = "obj"
    /\ HasKey(GetKey(data, "aikeywords"), "appKeywords")
    /\ GetKey(GetKey(data, "aikeywords"), "appKeywords").kind = "list"

\* C6: generateKeywords returns a result only when the parsed reply is an
\* object whose aikeywords value is an object holding an appKeywords list;
\* for any other reply it returns None.
C6_ResultOnlyWhenWellFormed ==
    (Returned /\ synth_result # NoneVal) =>
        /\ extracted.found
        /\ Loads(extracted.json_str).ok
        /\ WellFormed(Loads(extracted.json_str).val)

\* C7: the text extracted is the reply from its first { to its last },
\* both included, and the result, when there is one, is that text parsed;
\* a reply with no { before a } gives no extraction and None.
C7_Extraction ==
    Returned =>
        IF HasBracePair
        THEN /\ extracted = [found |-> TRUE, json_str |-> Braced]
             /\ synth_result # NoneVal =>
                   (Loads(Braced).ok /\ synth_result = Loads(Braced).val)
             /\ ~Loads(Braced).ok => synth_result = NoneVal
        ELSE /\ extracted = NoExtract
             /\ synth_result = NoneVal

\* an object between a fence with prose before it and a fence after it
C7_Witness ==
    /\ Returned
    /\ synth_result # NoneVal
    /\ Len(response.content) > 4
    /\ response.content[1] = "p"
    /\ response.content[2] = "fence"
    /\ response.content[Len(response.content)] \in ProseTok
    /\ Len(extracted.json_str) = Len(response.content) - 3

(***************************************************************************)
(* Properties of the competitor batch (SpecBatch).                         *)
(***************************************************************************)
RECURSIVE Ascending(_)
Ascending(S) == IF S = {} THEN <<>> ELSE <<SetMin(S)>> \o Ascending(S \ {SetMin(S)})

\* the positions, among the first three, of the competitors fetched
Fetched == {i \in 1..Len(competitors) : i <= 3 /\ i \in DOMAIN tasks /\ tasks[i] = "ok"}

\* C10: the batch returns, without raising, exactly one entry per competitor
\* among the first three whose fetch succeeded, in the competitors' order
\* and so at most three; every fetch it started has ended by then, whatever
\* the others did.
C10_BatchResult ==
    /\ batch_pc # "raised"
    /\ batch_pc = "returned" =>
          /\ Len(batch_result) <= 3
          /\ Len(batch_result) = Cardinality(Fetched)
          /\ \A n \in 1..Len(batch_result) :
                /\ batch_result[n].appname = competitors[Ascending(Fetched)[n]].appname
                /\ batch_result[n] = results[Ascending(Fetched)[n]]
          /\ \A i \in DOMAIN tasks : tasks[i] \in {"ok", "failed"}
          /\ \A i \in 1..Len(competitors) : i <= 3 => i \in DOMAIN tasks

\* three competitors, the second fetch failing and ending first
C10_Witness ==
    /\ batch_pc = "returned"
    /\ Len(competitors) >= 3
    /\ tasks[1] = "ok" /\ tasks[2] = "failed" /\ tasks[3] = "ok"
    /\ finish_order[1] = 2
    /\ Len(batch_result) = 2

\* the trimmed, lower-cased keywords of competitor i's page that are not
\* stop words
StopFiltered(i) ==
    LET meta == CompMeta(competitors[i].pos)
        all_keywords == [j \in 1..Len(meta.pieces) |-> Lower(Strip(meta.pieces[j]))]
        NotStop(k) == k \notin StopKeywords
    IN  SelectSeq(all_keywords, NotStop)

\* C17: the keywords returned for a competitor page are its keywords with
\* only the stop words removed: a keyword equal to the main app's own name
\* or subtitle stays in the competitor's list.
C17_CompetitorFilter ==
    \A i \in DOMAIN tasks :
        tasks[i] = "ok" =>
            /\ results[i].appname = competitors[i].appname
            /\ results[i].keywords = StopFiltered(i)

\* what the filter of the scraper gives for competitor i's own page
OwnKeywords(i) == GetKeywordsFromSoup(CompMeta(competitors[i].pos), MainName, MainSubtitle)

\* C18: the batch returns only when every sub-fetch it started has ended,
\* and what it returns is decided by which sub-fetches succeeded, not by the
\* order in which they ended: one entry per success, by competitor position,
\* each with the name and the keywords of its own competitor.
C18_OrderIndependent ==
    batch_pc = "returned" =>
        /\ Len(finish_order) = Len(tasks)
        /\ \A i \in DOMAIN tasks : \E k \in 1..Len(finish_order) : finish_order[k] = i
        /\ batch_result = [n \in 1..Cardinality(Fetched) |->
                              [appname |-> CompName(Ascending(Fetched)[n]),
                               keywords |-> OwnKeywords(Ascending(Fetched)[n])]]

\* three fetches succeeding, the third ending first and the first last
C18_Witness ==
    /\ batch_pc = "returned"
    /\ finish_order = <<3, 2, 1>>
    /\ \A i \in 1..3 : tasks[i] = "ok"
    /\ Len(batch_result) = 3

(***************************************************************************)
(* Properties of the URL preparation (SpecUrl).                            *)
(***************************************************************************)
\* the positions of the /xx/ segments of a URL
LocaleAt(url) == {i \in 2..(Len(url) - 1) : url[i] \in TwoLetter}

\* the position of the store domain when a path follows it, else 0
DomainAt(url) ==
    IF \E i \in 1..(Len(url) - 1) : url[i] = Domain
    THEN SetMin({i \in 1..(Len(url) - 1) : url[i] = Domain})
    ELSE 0

Prepared == norm.pc \in {"once", "done"}

\* a URL with no /xx/ segment gets /cc/ right after the store domain
InsertsLocale ==
    (Prepared /\ LocaleAt(norm.app_url) = {} /\ DomainAt(norm.app_url) > 0) =>
        LET d == DomainAt(norm.app_url) IN
        norm.once = SubSeq(norm.app_url, 1, d) \o <<Lower(norm.country_code)>>
                    \o SubSeq(norm.app_url, d + 1, Len(norm.app_url))

\* the /xx/ segment of a URL becomes /cc/ and nothing else changes
ReplacesLocale ==
    (Prepared /\ LocaleAt(norm.app_url) # {}) =>
        norm.once = [norm.app_url EXCEPT ![SetMin(LocaleAt(norm.app_url))] =
                                             Lower(norm.country_code)]

\* preparing a prepared URL changes nothing
PrepareIdempotent == norm.pc = "done" => norm.twice = norm.once

\* C11: the URL preparation inserts /cc/ right after the store domain when
\* the URL has no two-letter locale segment, replaces an existing /xx/
\* segment by /cc/ leaving the rest of the URL as it was, and applied to its
\* own result with the same country returns that result.
C11_NormalizeLocale == InsertsLocale /\ ReplacesLocale /\ PrepareIdempotent

\* C23: for every URL and every country code of country_options, the URL
\* the lookup searches for is the appurl the scraper stores for the same
\* URL and country.
C23_SameNormalization ==
    (Prepared /\ norm.looked /\ norm.country_code \in CountryOptions) =>
        norm.searched = norm.once

\* a URL typed without its locale, and one typed with another locale
C23_Witness ==
    /\ Prepared
    /\ norm.looked
    /\ norm.country_code = "in"
    /\ norm.app_url \in {<<"https:", "", Domain, "app", "id1">>,
                         <<"https:", "", Domain, "us", "app", "id1">>}
    /\ norm.searched = <<"https:", "", Domain, "in", "app", "id1">>
    /\ norm.once = norm.searched

(***************************************************************************)
(* Properties of the keyword filter (SpecFilter).                          *)
(***************************************************************************)
\* the i-th piece trimmed and lower-cased
Token(i) == Lower(Strip(filt.meta.pieces[i]))

\* a stop word, the app's own name or its own subtitle, whatever the case
Excluded(k) ==
    k \in StopKeywords \/ k = Lower(filt.app_name) \/ k = Lower(filt.app_subtitle)

KeptAt == {i \in 1..Len(filt.meta.pieces) : ~Excluded(Token(i))}

\* the r-th position kept, counting from the left
NthKept(r) == CHOOSE i \in KeptAt : Cardinality({j \in KeptAt : j <= i}) = r

\* C12: the filter's result holds no token that, trimmed and lower-cased, is
\* a stop word, the app's own name or its own subtitle, and holds every other
\* token, trimmed and lower-cased, in the order of the content.
C12_KeywordFilter ==
    (filt.pc = "done" /\ filt.meta.has_tag) =>
        /\ \A r \in 1..Len(filt.keywords) : ~Excluded(filt.keywords[r])
        /\ Len(filt.keywords) = Cardinality(KeptAt)
        /\ \A r \in 1..Len(filt.keywords) : filt.keywords[r] = Token(NthKept(r))

C12_Witness ==
    /\ filt.pc = "done"
    /\ filt.meta = [has_tag |-> TRUE, pieces |-> <<"APP", "MyApp", " Photo ">>]
    /\ filt.app_name = "MyApp"
    /\ filt.keywords = <<"photo">>

(***************************************************************************)
(* Properties of the schema methods (SpecSchema).                          *)
(***************************************************************************)
\* C15: a schema method called when its collection exists issues no create
\* call and leaves the store as it was; called when the collection is absent
\* it creates it, with one create call; and a second call for the same
\* collection leaves the store as the first call left it.
C15_EnsureSchemaIdempotent ==
    /\ \A n \in 1..Len(schema_log) :
          LET e == schema_log[n] IN
          /\ e.before[e.name] # "absent" =>
                e.creates = 0 /\ e.after = e.before
          /\ (e.before[e.name] = "absent" /\ ~e.failed) =>
                /\ e.creates = 1
                /\ e.after = [e.before EXCEPT ![e.name] = "declared"]
          /\ \A c \in CollectionNames \ {e.name} : e.after[c] = e.before[c]
    /\ \A n \in 1..(Len(schema_log) - 1) :
          LET e == schema_log[n]
              f == schema_log[n + 1]
          IN  (e.name = f.name /\ ~e.failed /\ ~f.failed) =>
                  f.creates = 0 /\ f.after = e.after

\* a collection created by one call, and the same method called again
C15_Witness ==
    \E n \in 1..(Len(schema_log) - 1) :
        /\ schema_log[n].name = schema_log[n + 1].name
        /\ schema_log[n].before[schema_log[n].name] = "absent"
        /\ schema_log[n].creates = 1
        /\ ~schema_log[n].failed
        /\ ~schema_log[n + 1].failed
        /\ collections[schema_log[n].name] = "declared"

====
